---- MODULE Spec2Model ----
(***************************************************************************)
(* bufreaderwriter: a stream that moves one Read + Write (+ Seek) channel  *)
(* between a std BufReader and a std BufWriter as the caller alternates    *)
(* read and write calls.                                                   *)
(*                                                                         *)
(*   BufReaderWriterSeq  (src/src/seq.rs)   sequential channel, keeps the  *)
(*                        reader's lookahead in a carry-over buffer        *)
(*   BufReaderWriterRand (src/src/rand.rs)  seekable channel, discards the *)
(*                        lookahead and seeks back (src/src/lib.rs is the  *)
(*                        same logic behind a Cell)                        *)
(*                                                                         *)
(* One stream object is modelled; `variant` says which of the two types it *)
(* is.  Every public call is one action; the outcome of each channel call  *)
(* the handler makes (bytes moved, or an error) is an input of the action. *)
(***************************************************************************)
EXTENDS Integers, Sequences, FiniteSets, TLC

\* ---------------------------------------------------------------- bounds
\* Bytes the sequential channel can supply / initial content of the file.
MaxIn == 3
\* Total number of bytes the write calls may have accepted.
MaxW == 2
\* Largest caller buffer handed to read or write, largest consume amount.
MaxLen == 2
\* Stand-in for std's DEFAULT_BUF_SIZE (8 KiB), used by BufReader::new.
DefaultCap == 2
\* Capacities given to reader_with_capacity / writer_with_capacity: 1..MaxCap.
MaxCap == DefaultCap - 1
\* Largest channel offset a seek may ask for.
MaxPos == MaxIn

Min(a, b) == IF a <= b THEN a ELSE b
Max(a, b) == IF a >= b THEN a ELSE b

\* Option<T>: <<>> is None, <<x>> is Some(x).
None == <<>>
Some(x) == <<x>>

\* The bytes the sequential channel supplies, in order: 1, 2, ..., MaxIn.
Source == [i \in 1..MaxIn |-> i]

\* The caller's buffer of a write of m bytes when wn bytes were accepted
\* before: every accepted byte has its own value, above the channel's own.
WriteData(wn, m) == [j \in 1..m |-> MaxIn + wn + j]

Take(s, k) == SubSeq(s, 1, k)
Drop(s, k) == SubSeq(s, k + 1, Len(s))

\* ---------------------------------------------------------------- channel
\* The channel RW: `data` is what has been written to it (sequential: the
\* sink, append only; seekable: the file content), `cur` the file cursor,
\* `pulled` the number of Source bytes a sequential channel has supplied.

\* data with bytes written over it from offset at (zero filled gap).  A
\* write of no bytes leaves the file as it is.
Overwrite(data, at, bytes) ==
    LET n == Max(Len(data), at + Len(bytes))
    IN  IF bytes = <<>> THEN data
        ELSE [i \in 1..n |->
                IF i > at /\ i <= at + Len(bytes) THEN bytes[i - at]
                ELSE IF i <= Len(data) THEN data[i]
                ELSE 0]

\* RW::read(buf) with len(buf) = req.  ro < 0: the channel fails; otherwise
\* the channel returns at most ro bytes (short reads are legal).
ChanRead(seekable, rw, req, ro) ==
    IF ro < 0 THEN [ok |-> FALSE, bytes |-> <<>>, rw |-> rw]
    ELSE IF seekable
    THEN LET k == Min(Min(ro, req), Max(0, Len(rw.data) - rw.cur))
         IN  [ok |-> TRUE,
              bytes |-> SubSeq(rw.data, rw.cur + 1, rw.cur + k),
              rw |-> [rw EXCEPT !.cur = rw.cur + k]]
    ELSE LET k == Min(Min(ro, req), MaxIn - rw.pulled)
         IN  [ok |-> TRUE,
              bytes |-> SubSeq(Source, rw.pulled + 1, rw.pulled + k),
              rw |-> [rw EXCEPT !.pulled = rw.pulled + k]]

\* The channel takes the first k bytes of `bytes`.
ChanPut(seekable, rw, bytes, k) ==
    IF seekable
    THEN [rw EXCEPT !.data = Overwrite(rw.data, rw.cur, Take(bytes, k)),
                    !.cur = rw.cur + k]
    ELSE [rw EXCEPT !.data = rw.data \o Take(bytes, k)]

\* RW::write(buf).  wo < 0: the channel fails; otherwise it accepts at most
\* wo bytes.
ChanWrite(seekable, rw, bytes, wo) ==
    IF wo < 0 THEN [ok |-> FALSE, n |-> 0, rw |-> rw]
    ELSE LET k == Min(wo, Len(bytes))
         IN  [ok |-> TRUE, n |-> k, rw |-> ChanPut(seekable, rw, bytes, k)]

\* SeekFrom
Start(n) == [whence |-> "Start", off |-> n]
Current(n) == [whence |-> "Current", off |-> n]
End(n) == [whence |-> "End", off |-> n]

SeekTarget(data, cur, sp) ==
    CASE sp.whence = "Start" -> sp.off
      [] sp.whence = "Current" -> cur + sp.off
      [] sp.whence = "End" -> Len(data) + sp.off

\* RW::seek(pos).  se: the channel fails; a negative target is an error too.
ChanSeek(rw, sp, se) ==
    LET t == SeekTarget(rw.data, rw.cur, sp)
    IN  IF se \/ t < 0 THEN [ok |-> FALSE, at |-> 0, rw |-> rw]
        ELSE [ok |-> TRUE, at |-> t, rw |-> [rw EXCEPT !.cur = t]]

\* ---------------------------------------------------------------- BufIO
\* enum BufIO { Reader(BufReader<RW>), Writer(BufWriter<RW>) } held in an
\* Option: kind "None" is the slot emptied by take().  buf is the reader's
\* unconsumed lookahead (BufReader::buffer()) or the writer's unflushed
\* bytes; cap the wrapper's capacity.
NoneIO == [kind |-> "None", buf |-> <<>>, cap |-> 0]
Reader(c) == [kind |-> "Reader", buf |-> <<>>, cap |-> c]
Writer(c) == [kind |-> "Writer", buf |-> <<>>, cap |-> c]

\* BufWriter::flush_buf: writes the buffer to the channel.  The channel
\* takes fo bytes before it fails; fo >= len(buf) is a complete flush.  On
\* failure the bytes already written leave the buffer, the rest stay.
BufWriter_flush_buf(seekable, w, rw, fo) ==
    LET k == Min(fo, Len(w.buf))
    IN  [ok |-> k = Len(w.buf),
         w  |-> [w EXCEPT !.buf = Drop(w.buf, k)],
         rw |-> ChanPut(seekable, rw, w.buf, k)]

\* BufWriter::flush: flush_buf, then RW::flush (cf: it fails).
BufWriter_flush(seekable, w, rw, fo, cf) ==
    LET f == BufWriter_flush_buf(seekable, w, rw, fo)
    IN  [f EXCEPT !.ok = f.ok /\ ~cf]

\* BufWriter::write: buffer the bytes if they fit, flushing first if they
\* do not; a write of at least the capacity goes straight to the channel.
BufWriter_write(seekable, w, rw, bytes, fo, wo) ==
    IF Len(bytes) < w.cap - Len(w.buf)
    THEN [ok |-> TRUE, n |-> Len(bytes),
          w |-> [w EXCEPT !.buf = w.buf \o bytes], rw |-> rw]
    ELSE LET f == IF Len(bytes) > w.cap - Len(w.buf)
                  THEN BufWriter_flush_buf(seekable, w, rw, fo)
                  ELSE [ok |-> TRUE, w |-> w, rw |-> rw]
         IN  IF ~f.ok THEN [ok |-> FALSE, n |-> 0, w |-> f.w, rw |-> f.rw]
             ELSE IF Len(bytes) >= w.cap
             THEN LET c == ChanWrite(seekable, f.rw, bytes, wo)
                  IN  [ok |-> c.ok, n |-> c.n, w |-> f.w, rw |-> c.rw]
             ELSE [ok |-> TRUE, n |-> Len(bytes),
                   w |-> [f.w EXCEPT !.buf = f.w.buf \o bytes], rw |-> f.rw]

\* BufWriter::into_inner: flush_buf; on failure the error carries the
\* writer (IntoInnerError), on success the channel is returned.
BufWriter_into_inner(seekable, w, rw, fo) ==
    LET f == BufWriter_flush_buf(seekable, w, rw, fo)
    IN  [ok |-> f.ok, rw |-> f.rw, w |-> IF f.ok THEN NoneIO ELSE f.w]

\* BufWriter::seek: flush_buf, then RW::seek.
BufWriter_seek(w, rw, sp, fo, se) ==
    LET f == BufWriter_flush_buf(TRUE, w, rw, fo)
    IN  IF ~f.ok THEN [ok |-> FALSE, at |-> 0, io |-> f.w, rw |-> f.rw]
        ELSE LET c == ChanSeek(f.rw, sp, se)
             IN  [ok |-> c.ok, at |-> c.at, io |-> f.w, rw |-> c.rw]

\* BufReader::read: an empty lookahead and a request of at least the
\* capacity bypass the buffer; otherwise an empty lookahead is refilled by
\* one channel read of `cap` bytes and the request is served from it.
BufReader_read(seekable, r, rw, n, ro) ==
    IF Len(r.buf) = 0 /\ n >= r.cap
    THEN LET c == ChanRead(seekable, rw, n, ro)
         IN  [ok |-> c.ok, bytes |-> c.bytes, io |-> r, rw |-> c.rw,
              chanReads |-> 1]
    ELSE IF Len(r.buf) = 0
    THEN LET c == ChanRead(seekable, rw, r.cap, ro)
             k == Min(Len(c.bytes), n)
         IN  IF ~c.ok
             THEN [ok |-> FALSE, bytes |-> <<>>, io |-> r, rw |-> rw,
                   chanReads |-> 1]
             ELSE [ok |-> TRUE, bytes |-> Take(c.bytes, k),
                   io |-> [r EXCEPT !.buf = Drop(c.bytes, k)], rw |-> c.rw,
                   chanReads |-> 1]
    ELSE LET k == Min(Len(r.buf), n)
         IN  [ok |-> TRUE, bytes |-> Take(r.buf, k),
              io |-> [r EXCEPT !.buf = Drop(r.buf, k)], rw |-> rw,
              chanReads |-> 0]

\* BufReader::seek: a relative seek is corrected by the length of the
\* lookahead (the channel cursor is that far ahead); the lookahead is
\* discarded once the channel seek succeeded.
BufReader_seek(r, rw, sp, se) ==
    LET c == IF sp.whence = "Current"
             THEN ChanSeek(rw, Current(sp.off - Len(r.buf)), se)
             ELSE ChanSeek(rw, sp, se)
    IN  IF ~c.ok THEN [ok |-> FALSE, at |-> 0, io |-> r, rw |-> rw]
        ELSE [ok |-> TRUE, at |-> c.at, io |-> [r EXCEPT !.buf = <<>>],
              rw |-> c.rw]

\* Mutant of BufIO_into_inner: the writer is taken apart without a flush
\* (into_parts), its buffer dropped.
BufIO_into_inner_noflush(seekable, io, rw, fo) ==
    [ok |-> TRUE, rw |-> rw, w |-> NoneIO]

\* BufIO::into_inner (seq.rs 37-42, rand.rs 31-36): the reader gives the
\* channel back (its lookahead is dropped with it), the writer flushes and
\* passes a failure on with the writer inside.
BufIO_into_inner(seekable, io, rw, fo) ==
    IF io.kind = "Reader" THEN [ok |-> TRUE, rw |-> rw, w |-> NoneIO]
    ELSE BufWriter_into_inner(seekable, io, rw, fo)

\* ------------------------------------------------- the stream and a call
\* A stream is [inner, buffer, pos, capacity, rw]: the fields of
\* BufReaderWriterSeq, with the channel the active wrapper owns.  The
\* random-access stream has inner only: buffer and capacity stay None.
\* A handler returns the stream after the call and what the call returned.
Ret(st, ok, bytes, n) ==
    [st |-> st, ok |-> ok, bytes |-> bytes, n |-> n, at |-> 0,
     flushFailed |-> FALSE, switched |-> FALSE, chanReads |-> 0]

\* ---------------------------------------------------- BufReaderWriterSeq
\* The wrappers a mode switch builds: with_capacity(c) for Some(c), new for
\* None (seq.rs 224-227 and 245-248).
\* Mutant of Seq_switch_reader: BufReader::new whatever self.capacity is.
Seq_switch_reader_default(capacity) == Reader(DefaultCap)

\* Mutant of Seq_switch_reader: the read arm installs BufIO::Writer.
Seq_switch_reader_wrongkind(capacity) ==
    Writer(IF capacity = None THEN DefaultCap ELSE capacity[1])

Seq_switch_reader(capacity) ==
    Reader(IF capacity = None THEN DefaultCap ELSE capacity[1])

Seq_switch_writer(capacity) ==
    Writer(IF capacity = None THEN DefaultCap ELSE capacity[1])

\* buffer(): the unconsumed part of the carry-over buffer.
Seq_buffer(s) ==
    IF s.buffer = None THEN None ELSE Some(Drop(s.buffer[1], s.pos))

\* capacity()
Seq_capacity(s) == IF s.inner.kind = "None" THEN 0 ELSE s.inner.cap

\* is_reader()
Seq_is_reader(s) == s.inner.kind = "Reader"

\* Mutant of Seq_consume: the buffer is dropped only when pos passes its
\* length (> for >=).
Seq_consume_gt(s, amt) ==
    IF s.buffer # None
    THEN IF s.pos + amt > Len(s.buffer[1])
         THEN [s EXCEPT !.pos = s.pos + amt, !.buffer = None]
         ELSE [s EXCEPT !.pos = s.pos + amt]
    ELSE s

\* Mutant of Seq_consume: pos advances up to the length of the buffer, the
\* buffer is never dropped.
Seq_consume_nodrop(s, amt) ==
    IF s.buffer # None
    THEN [s EXCEPT !.pos = Min(s.pos + amt, Len(s.buffer[1]))]
    ELSE s

\* consume(amt)
Seq_consume(s, amt) ==
    IF s.buffer # None
    THEN IF s.pos + amt >= Len(s.buffer[1])
         THEN [s EXCEPT !.pos = s.pos + amt, !.buffer = None]
         ELSE [s EXCEPT !.pos = s.pos + amt]
    ELSE s

\* Mutant of Seq_read_carry_err: the carry-over buffer is dropped on the
\* error path too.
Seq_read_carry_err_drop(s) == Ret([s EXCEPT !.buffer = None], FALSE, <<>>, 0)

\* Mutant of Seq_read_carry_err: the error path counts the first carry-over
\* byte as returned.
Seq_read_carry_err_skip(s) == Ret([s EXCEPT !.pos = s.pos + 1], FALSE, <<>>, 0)

\* The channel read failed after the carry-over bytes were copied into the
\* caller's buffer: Err(e) => Err(e), nothing is assigned (seq.rs 214).
Seq_read_carry_err(s) == Ret(s, FALSE, <<>>, 0)

\* Mutant of Seq_read_carry_hit: pos always advances, the buffer is kept
\* when the read takes its last byte.
Seq_read_carry_hit_keep(s, readlen) ==
    Ret([s EXCEPT !.pos = s.pos + readlen], TRUE,
        SubSeq(s.buffer[1], s.pos + 1, s.pos + readlen), readlen)

\* read, the carry-over buffer holds at least readlen bytes (seq.rs
\* 199-206): the bytes are copied from position pos; pos advances when
\* bytes remain, else the buffer is dropped (and pos left as it is).
Seq_read_carry_hit(s, readlen) ==
    LET b == s.buffer[1]
        datalen == Len(b) - s.pos
    IN  Ret(IF datalen > readlen
            THEN [s EXCEPT !.pos = s.pos + readlen]
            ELSE [s EXCEPT !.buffer = None],
            TRUE, SubSeq(b, s.pos + 1, s.pos + readlen), readlen)

\* Mutant of Seq_read_carry_fill: the carry-over buffer is dropped only
\* when the channel read returned a byte.
Seq_read_carry_fill_keep(s, r) ==
    LET b == s.buffer[1]
        datalen == Len(b) - s.pos
    IN  Ret([s EXCEPT !.buffer = IF r.bytes = <<>> THEN s.buffer ELSE None,
                      !.inner = r.io, !.rw = r.rw],
            TRUE, SubSeq(b, s.pos + 1, s.pos + datalen) \o r.bytes,
            datalen + Len(r.bytes))

\* Mutant of Seq_read_carry_fill: the carry-over buffer is kept after the
\* channel read.
Seq_read_carry_fill_nodrop(s, r) ==
    LET b == s.buffer[1]
        datalen == Len(b) - s.pos
    IN  Ret([s EXCEPT !.inner = r.io, !.rw = r.rw],
            TRUE, SubSeq(b, s.pos + 1, s.pos + datalen) \o r.bytes,
            datalen + Len(r.bytes))

\* read, the carry-over buffer holds fewer bytes than asked for and the
\* channel read r into buf[datalen..] returned Ok(n) (seq.rs 208-212):
\* the carry-over bytes come first, the buffer is dropped.
Seq_read_carry_fill(s, r) ==
    LET b == s.buffer[1]
        datalen == Len(b) - s.pos
    IN  Ret([s EXCEPT !.buffer = None, !.inner = r.io, !.rw = r.rw],
            TRUE, SubSeq(b, s.pos + 1, s.pos + datalen) \o r.bytes,
            datalen + Len(r.bytes))

\* read, the BufIO::Reader(r) arm (seq.rs 195-220).
Seq_read_reader(s, n, ro) ==
    IF s.buffer # None
    THEN LET b == s.buffer[1]
             datalen == Len(b) - s.pos
             readlen == n
         IN  IF datalen >= readlen
             THEN Seq_read_carry_hit(s, readlen)
             ELSE LET r == BufReader_read(FALSE, s.inner, s.rw,
                                          readlen - datalen, ro)
                  IN  IF r.ok
                      THEN [Seq_read_carry_fill(s, r)
                            EXCEPT !.chanReads = r.chanReads]
                      ELSE [Seq_read_carry_err(s)
                            EXCEPT !.chanReads = r.chanReads]
    ELSE LET r == BufReader_read(FALSE, s.inner, s.rw, n, ro)
         IN  [Ret([s EXCEPT !.inner = r.io, !.rw = r.rw], r.ok, r.bytes,
                  Len(r.bytes))
              EXCEPT !.chanReads = r.chanReads]

\* Mutant of Seq_read_switch: no w.flush()? before the writer is taken.
Seq_read_switch_noflush(s, fo, cf) ==
    LET i == BufIO_into_inner(FALSE, s.inner, s.rw, fo)
    IN  IF ~i.ok
        THEN [st |-> [s EXCEPT !.inner = NoneIO, !.rw = i.rw],
              flushFailed |-> FALSE, ok |-> FALSE]
        ELSE [st |-> [s EXCEPT !.inner = Seq_switch_reader(s.capacity),
                               !.rw = i.rw],
              flushFailed |-> FALSE, ok |-> TRUE]

\* Mutant of Seq_read_switch: the writer is taken out of inner before it
\* is flushed, and a failed flush returns with inner empty.
Seq_read_switch_takefirst(s, fo, cf) ==
    LET f == BufWriter_flush(FALSE, s.inner, s.rw, fo, cf)
    IN  IF ~f.ok
        THEN [st |-> [s EXCEPT !.inner = NoneIO, !.rw = f.rw],
              flushFailed |-> TRUE, ok |-> FALSE]
        ELSE [st |-> [s EXCEPT !.inner = Seq_switch_reader(s.capacity),
                               !.rw = f.rw],
              flushFailed |-> FALSE, ok |-> TRUE]

\* read, the BufIO::Writer(w) arm up to the retry (seq.rs 222-227):
\* w.flush()?, inner.take().unwrap().into_inner()?, inner = Some(Reader).
\* Returns the stream and whether each `?` returned early.
Seq_read_switch(s, fo, cf) ==
    LET f == BufWriter_flush(FALSE, s.inner, s.rw, fo, cf)
    IN  IF ~f.ok
        THEN [st |-> [s EXCEPT !.inner = f.w, !.rw = f.rw],
              flushFailed |-> TRUE, ok |-> FALSE]
        ELSE LET i == BufIO_into_inner(FALSE, f.w, f.rw, fo)
             IN  IF ~i.ok
                 THEN [st |-> [s EXCEPT !.inner = NoneIO, !.rw = i.rw],
                       flushFailed |-> FALSE, ok |-> FALSE]
                 ELSE [st |-> [s EXCEPT !.inner = Seq_switch_reader(s.capacity),
                                        !.rw = i.rw],
                       flushFailed |-> FALSE, ok |-> TRUE]

\* read (seq.rs 193-231)
Seq_read(s, n, fo, cf, ro) ==
    IF s.inner.kind = "Reader" THEN Seq_read_reader(s, n, ro)
    ELSE LET sw == Seq_read_switch(s, fo, cf)
         IN  IF ~sw.ok
             THEN [Ret(sw.st, FALSE, <<>>, 0)
                   EXCEPT !.flushFailed = sw.flushFailed]
             ELSE [Seq_read_reader(sw.st, n, ro) EXCEPT !.switched = TRUE]

\* Mutant of Seq_write_switch: the lookahead is not captured.
Seq_write_switch_nocapture(s) ==
    [s EXCEPT !.inner = Seq_switch_writer(s.capacity)]

\* Mutant of Seq_write_switch: an empty lookahead clears the carry-over
\* buffer.
Seq_write_switch_reset(s) ==
    LET rb == s.inner.buf
        c  == IF rb # <<>> THEN [s EXCEPT !.buffer = Some(rb), !.pos = 0]
              ELSE [s EXCEPT !.buffer = None]
        i  == BufIO_into_inner(FALSE, c.inner, c.rw, 0)
    IN  IF ~i.ok THEN [c EXCEPT !.inner = NoneIO]
        ELSE [c EXCEPT !.inner = Seq_switch_writer(s.capacity), !.rw = i.rw]

\* write, the BufIO::Reader(r) arm up to the retry (seq.rs 239-248): a
\* non-empty lookahead becomes the carry-over buffer at pos 0, then the
\* reader is taken apart and a writer installed.
Seq_write_switch(s) ==
    LET rb == s.inner.buf
        c  == IF rb # <<>> THEN [s EXCEPT !.buffer = Some(rb), !.pos = 0]
              ELSE s
        i  == BufIO_into_inner(FALSE, c.inner, c.rw, 0)
    IN  IF ~i.ok THEN [c EXCEPT !.inner = NoneIO]
        ELSE [c EXCEPT !.inner = Seq_switch_writer(s.capacity), !.rw = i.rw]

\* write (seq.rs 235-252)
Seq_write(s, bytes, fo, wo) ==
    LET switch == s.inner.kind = "Reader"
        t == IF switch THEN Seq_write_switch(s) ELSE s
        w == BufWriter_write(FALSE, t.inner, t.rw, bytes, fo, wo)
    IN  IF t.inner.kind # "Writer"
        THEN [Ret(t, FALSE, <<>>, 0) EXCEPT !.switched = switch]
        ELSE [Ret([t EXCEPT !.inner = w.w, !.rw = w.rw], w.ok,
                  Take(bytes, w.n), w.n)
              EXCEPT !.switched = switch]

\* Mutant of Seq_flush: flush drops the carry-over buffer.
Seq_flush_dropcarry(s, fo, cf) ==
    IF s.inner.kind = "Writer"
    THEN LET f == BufWriter_flush(FALSE, s.inner, s.rw, fo, cf)
         IN  [Ret([s EXCEPT !.inner = f.w, !.rw = f.rw, !.buffer = None],
                  f.ok, <<>>, 0)
              EXCEPT !.flushFailed = ~f.ok]
    ELSE Ret(s, TRUE, <<>>, 0)

\* flush (seq.rs 254-259)
Seq_flush(s, fo, cf) ==
    IF s.inner.kind = "Writer"
    THEN LET f == BufWriter_flush(FALSE, s.inner, s.rw, fo, cf)
         IN  [Ret([s EXCEPT !.inner = f.w, !.rw = f.rw], f.ok, <<>>, 0)
              EXCEPT !.flushFailed = ~f.ok]
    ELSE Ret(s, TRUE, <<>>, 0)

\* ---------------------------------------------------- BufReaderWriterRand
\* Mutant of Rand_read_switch: the reader is built over the channel
\* without the writer being flushed; its buffer is dropped.
Rand_read_switch_drop(s, fo, cf) ==
    [st |-> [s EXCEPT !.inner = Reader(DefaultCap)],
     flushFailed |-> FALSE, ok |-> TRUE]

\* read, the BufIO::Writer(w) arm up to the retry (rand.rs 79-81).
Rand_read_switch(s, fo, cf) ==
    LET f == BufWriter_flush(TRUE, s.inner, s.rw, fo, cf)
    IN  IF ~f.ok
        THEN [st |-> [s EXCEPT !.inner = f.w, !.rw = f.rw],
              flushFailed |-> TRUE, ok |-> FALSE]
        ELSE LET i == BufIO_into_inner(TRUE, f.w, f.rw, fo)
             IN  IF ~i.ok
                 THEN [st |-> [s EXCEPT !.inner = NoneIO, !.rw = i.rw],
                       flushFailed |-> FALSE, ok |-> FALSE]
                 ELSE [st |-> [s EXCEPT !.inner = Reader(DefaultCap),
                                        !.rw = i.rw],
                       flushFailed |-> FALSE, ok |-> TRUE]

\* read, the BufIO::Reader(r) arm (rand.rs 77).
Rand_read_reader(s, n, ro) ==
    LET r == BufReader_read(TRUE, s.inner, s.rw, n, ro)
    IN  [Ret([s EXCEPT !.inner = r.io, !.rw = r.rw], r.ok, r.bytes,
             Len(r.bytes))
         EXCEPT !.chanReads = r.chanReads]

\* read (rand.rs 75-85)
Rand_read(s, n, fo, cf, ro) ==
    IF s.inner.kind = "Reader" THEN Rand_read_reader(s, n, ro)
    ELSE LET sw == Rand_read_switch(s, fo, cf)
         IN  IF ~sw.ok
             THEN [Ret(sw.st, FALSE, <<>>, 0)
                   EXCEPT !.flushFailed = sw.flushFailed]
             ELSE [Rand_read_reader(sw.st, n, ro) EXCEPT !.switched = TRUE]

\* Mutant of Rand_write_switch: no r.seek(SeekFrom::Current(0)) before the
\* reader is taken apart.
Rand_write_switch_noseek(s, se) ==
    [st |-> [s EXCEPT !.inner = Writer(DefaultCap)], ok |-> TRUE]

\* write, the BufIO::Reader(r) arm up to the retry (rand.rs 93-95):
\* r.seek(SeekFrom::Current(0))?, take, into_inner, install a writer.
Rand_write_switch(s, se) ==
    LET k == BufReader_seek(s.inner, s.rw, Current(0), se)
    IN  IF ~k.ok THEN [st |-> s, ok |-> FALSE]
        ELSE LET i == BufIO_into_inner(TRUE, k.io, k.rw, 0)
             IN  IF ~i.ok
                 THEN [st |-> [s EXCEPT !.inner = NoneIO, !.rw = i.rw],
                       ok |-> FALSE]
                 ELSE [st |-> [s EXCEPT !.inner = Writer(DefaultCap),
                                        !.rw = i.rw],
                       ok |-> TRUE]

\* write (rand.rs 89-99)
Rand_write(s, bytes, fo, wo, se) ==
    LET switch == s.inner.kind = "Reader"
        sw == IF switch THEN Rand_write_switch(s, se)
              ELSE [st |-> s, ok |-> TRUE]
        w == BufWriter_write(TRUE, sw.st.inner, sw.st.rw, bytes, fo, wo)
    IN  IF ~sw.ok THEN Ret(sw.st, FALSE, <<>>, 0)
        ELSE [Ret([sw.st EXCEPT !.inner = w.w, !.rw = w.rw], w.ok,
                  Take(bytes, w.n), w.n)
              EXCEPT !.switched = switch]

\* Mutant of Rand_flush: a flush that succeeds in write mode installs a
\* reader.
Rand_flush_switch(s, fo, cf) ==
    IF s.inner.kind = "Writer"
    THEN LET f == BufWriter_flush(TRUE, s.inner, s.rw, fo, cf)
         IN  [Ret([s EXCEPT !.inner = IF f.ok THEN Reader(DefaultCap) ELSE f.w,
                            !.rw = f.rw], f.ok, <<>>, 0)
              EXCEPT !.flushFailed = ~f.ok]
    ELSE Ret(s, TRUE, <<>>, 0)

\* flush (rand.rs 101-106)
Rand_flush(s, fo, cf) ==
    IF s.inner.kind = "Writer"
    THEN LET f == BufWriter_flush(TRUE, s.inner, s.rw, fo, cf)
         IN  [Ret([s EXCEPT !.inner = f.w, !.rw = f.rw], f.ok, <<>>, 0)
              EXCEPT !.flushFailed = ~f.ok]
    ELSE Ret(s, TRUE, <<>>, 0)

\* Mutant of Rand_seek: in read mode the seek goes to the channel
\* (r.get_mut().seek(pos)), the reader's lookahead untouched.
Rand_seek_nodiscard(s, sp, fo, se) ==
    IF s.inner.kind = "Writer"
    THEN LET k == BufWriter_seek(s.inner, s.rw, sp, fo, se)
         IN  [Ret([s EXCEPT !.inner = k.io, !.rw = k.rw], k.ok, <<>>, 0)
              EXCEPT !.at = k.at]
    ELSE LET c == ChanSeek(s.rw, sp, se)
         IN  [Ret([s EXCEPT !.rw = c.rw], c.ok, <<>>, 0) EXCEPT !.at = c.at]

\* Mutant of Rand_seek: in write mode the seek goes to the channel
\* (w.get_mut().seek(pos)), the writer's buffer not flushed before it.
Rand_seek_noflush(s, sp, fo, se) ==
    IF s.inner.kind = "Writer"
    THEN LET c == ChanSeek(s.rw, sp, se)
         IN  [Ret([s EXCEPT !.rw = c.rw], c.ok, <<>>, 0) EXCEPT !.at = c.at]
    ELSE LET k == BufReader_seek(s.inner, s.rw, sp, se)
         IN  [Ret([s EXCEPT !.inner = k.io, !.rw = k.rw], k.ok, <<>>, 0)
              EXCEPT !.at = k.at]

\* seek (rand.rs 110-115)
Rand_seek(s, sp, fo, se) ==
    LET k == IF s.inner.kind = "Writer"
             THEN BufWriter_seek(s.inner, s.rw, sp, fo, se)
             ELSE BufReader_seek(s.inner, s.rw, sp, se)
    IN  [Ret([s EXCEPT !.inner = k.io, !.rw = k.rw], k.ok, <<>>, 0)
         EXCEPT !.at = k.at]

\* What the channel holds once the writer's buffer is written out: the
\* sink followed by the unflushed bytes (sequential), the file with the
\* unflushed bytes laid over it at the cursor (seekable).
View(sk, io, ch) ==
    IF io.kind # "Writer" THEN ch.data
    ELSE IF sk THEN Overwrite(ch.data, ch.cur, io.buf)
    ELSE ch.data \o io.buf

\* get_mut (rand.rs 59-61): the channel the active wrapper holds.
Rand_get_mut(s) == s.rw

\* File::set_len(len) on the channel (lib.rs 164), len smaller than the
\* length of the file: the content is cut, the cursor is not moved.
Chan_set_len(rw, len) == [rw EXCEPT !.data = Take(rw.data, len)]

\* into_inner (seq.rs 111-113, rand.rs 69-71): self.inner.unwrap()
\* .into_inner().  The stream is gone; the caller holds the channel, or the
\* error with the writer.
Stream_into_inner(seekable, s, fo) ==
    LET i == BufIO_into_inner(seekable, s.inner, s.rw, fo)
    IN  [ok |-> i.ok, rw |-> i.rw, w |-> i.w]

\* ------------------------------------------------------------------ state
VARIABLES
    variant,    \* "seq": BufReaderWriterSeq, "rand": BufReaderWriterRand
    alive,      \* FALSE once into_inner has consumed the stream
    inner,      \* self.inner: Option<BufIO<RW>>
    buffer,     \* self.buffer: Option<Box<Vec<u8>>>, the carry-over buffer
    pos,        \* self.pos
    capacity,   \* self.capacity: Option<usize>
    rw,         \* the channel the active wrapper owns
    result,     \* what into_inner returned
    \* what the caller has seen (history, read by the properties only)
    delivered,  \* seq: the bytes the successful reads returned, in order;
                \* rand: the bytes the last call returned, if it was a read
    wn,         \* number of bytes the write calls accepted
    lfile,      \* seekable channel: the content the calls made so far define
    lpos,       \* seekable channel: the position the calls made so far define
    errs,       \* a call has returned an error
    consumed,   \* consume has been called
    installed,  \* the wrapper the constructor or the last switch installed
    cap0,       \* capacity() right after construction
    last,       \* the last call and what it returned
    raw,        \* the channel has been cut short through get_mut
    scen        \* progress of: set_len(L), seek(End(0)), write(A),
                \* seek(Start(0)), read(L + len(A)); len: L; want: the first
                \* L bytes of the old content, then A; stale: the reader
                \* held a lookahead when the file was cut

vars == <<variant, alive, inner, buffer, pos, capacity, rw, result,
          delivered, wn, lfile, lpos, errs, consumed, installed, cap0, last,
          raw, scen>>

Self == [inner |-> inner, buffer |-> buffer, pos |-> pos,
         capacity |-> capacity, rw |-> rw]

seekable == variant = "rand"

\* Outcomes of the channel calls a handler makes.  A flush of b buffered
\* bytes has b + 1 outcomes; RW::flush is called by a writer only; a
\* channel read returns no more than the channel has left.  The outcome of
\* a channel call the handler does not reach is not enumerated: it is fixed
\* (0 or FALSE).
MaxBuf == Max(DefaultCap, MaxCap)
FlushOutcomes == IF inner.kind = "Writer" THEN 0..Len(inner.buf) ELSE {0}
ChanFlushOutcomes == IF inner.kind = "Writer" THEN BOOLEAN ELSE {FALSE}
Avail == IF seekable THEN Len(View(TRUE, inner, rw)) ELSE MaxIn - rw.pulled
ReadOutcomes == -1..Min(Max(MaxLen, MaxBuf), Avail)
WriteOutcomes == -1..MaxLen

\* The writer's buffer was written out in full (or there is no writer).
Flushed(fo) == inner.kind # "Writer" \/ fo >= Len(inner.buf)
\* A write of m bytes has to flush the writer's buffer first.
NeedsFlush(m) == inner.kind = "Writer" /\ m > inner.cap - Len(inner.buf)
\* A read of n bytes gets to RW::read: the lookahead is empty (a new
\* reader's is) and the carry-over buffer does not hold n bytes.
ReachesChannel(n) ==
    \/ inner.kind = "Writer"
    \/ /\ inner.buf = <<>>
       /\ buffer = None \/ Len(buffer[1]) - pos < n
ReadInputs ==
    {<<n, fo, cf, ro>> \in (0..MaxLen) \X FlushOutcomes \X ChanFlushOutcomes
                            \X ReadOutcomes :
        /\ ~Flushed(fo) => ~cf /\ n = 0
        /\ cf => n = 0
        /\ (~Flushed(fo) \/ cf \/ ~ReachesChannel(n)) => ro = 0}
WriteInputs ==
    {<<m, fo, wo>> \in (0..MaxLen) \X FlushOutcomes \X WriteOutcomes :
        /\ ~NeedsFlush(m) => fo = 0
        /\ wo <= m
        /\ (m < inner.cap \/ (NeedsFlush(m) /\ ~Flushed(fo))) => wo = 0}
SeekInputs == {Start(n) : n \in 0..MaxPos} \cup {Current(n) : n \in -1..1}
              \cup {End(n) : n \in -1..0}

\* op: the call; amt: the argument of consume; look: the length of the
\* reader's lookahead when the call switched to write mode; carry: the
\* number of unconsumed carry-over bytes when the call was made; afterErr:
\* the call before this one was a read that failed in the channel read.
Call(op, amt, ret) ==
    [op |-> op, amt |-> amt, ok |-> ret.ok,
     flushFailed |-> ret.flushFailed, switched |-> ret.switched,
     chanReads |-> ret.chanReads,
     look |-> IF op = "write" /\ ret.switched THEN Len(inner.buf) ELSE 0,
     carry |-> IF buffer = None THEN 0 ELSE Len(buffer[1]) - pos,
     afterErr |-> last.op = "read" /\ ~last.ok /\ last.chanReads > 0]

NoRet == Ret(Self, TRUE, <<>>, 0)

\* The calls of lib.rs 164-171 in their order: phase 1 after set_len, 2
\* after seek(End(0)), 3 after the write, 4 after seek(Start(0)), 5 after
\* the read.  Any other call, and any call that fails, is outside it.
NoScen == [phase |-> 0, len |-> 0, want |-> <<>>, stale |-> FALSE]
ScenSeek(sp, ret) ==
    IF ret.ok /\ scen.phase = 1 /\ sp = End(0)
    THEN [scen EXCEPT !.phase = 2]
    ELSE IF ret.ok /\ scen.phase = 3 /\ sp = Start(0)
    THEN [scen EXCEPT !.phase = 4]
    ELSE NoScen
ScenWrite(m, ret) ==
    IF ret.ok /\ scen.phase = 2 /\ ret.n = m
    THEN [scen EXCEPT !.phase = 3, !.want = scen.want \o ret.bytes]
    ELSE NoScen
ScenRead(n, ret) ==
    IF ret.ok /\ scen.phase = 4 /\ n = Len(scen.want)
    THEN [scen EXCEPT !.phase = 5]
    ELSE NoScen

\* Once the file is cut, the caller makes the calls of that sequence and
\* then calls into_inner (lib.rs 165-173); calls outside it are made on
\* the uncut file only.
InScen(next) == raw => next.phase > 0

\* The constructors: new_reader, new_writer, reader_with_capacity(c),
\* writer_with_capacity(c) (seq.rs 61-98), new_reader, new_writer
\* (rand.rs 45-56).  A seekable channel starts empty or holding Source.
Init ==
    /\ variant \in {"seq", "rand"}
    /\ alive = TRUE
    /\ capacity \in IF variant = "seq"
                    THEN {None} \cup {Some(c) : c \in 1..MaxCap}
                    ELSE {None}
    /\ \E k \in {"Reader", "Writer"} :
          inner = [kind |-> k, buf |-> <<>>,
                   cap |-> IF capacity = None THEN DefaultCap
                           ELSE capacity[1]]
    /\ buffer = None
    /\ pos = 0
    /\ rw \in IF variant = "seq"
              THEN {[data |-> <<>>, cur |-> 0, pulled |-> 0]}
              ELSE {[data |-> d, cur |-> 0, pulled |-> 0] : d \in {<<>>, Source}}
    /\ result = [done |-> FALSE, ok |-> TRUE, w |-> NoneIO]
    /\ delivered = <<>>
    /\ wn = 0
    /\ lfile = rw.data
    /\ lpos = 0
    /\ errs = FALSE
    /\ consumed = FALSE
    /\ installed = inner.kind
    /\ cap0 = inner.cap
    /\ last = [op |-> "new", amt |-> 0, ok |-> TRUE, flushFailed |-> FALSE,
               switched |-> FALSE, chanReads |-> 0, look |-> 0, carry |-> 0,
               afterErr |-> FALSE]
    /\ raw = FALSE
    /\ scen = NoScen

\* The fields of the stream after a call.
Becomes(st) ==
    /\ inner' = st.inner
    /\ buffer' = st.buffer
    /\ pos' = st.pos
    /\ capacity' = st.capacity
    /\ rw' = st.rw

Returned(op, n, ret) ==
    /\ Becomes(ret.st)
    /\ last' = Call(op, n, ret)
    /\ errs' = (errs \/ ~ret.ok)
    /\ installed' = IF ret.switched THEN ret.st.inner.kind ELSE installed
    /\ UNCHANGED <<variant, alive, result, cap0, raw>>

\* ---------------------------------------------------------------- actions
SeqRead ==
    /\ variant = "seq" /\ alive
    /\ \E in \in ReadInputs :
          LET n == in[1]  fo == in[2]  cf == in[3]  ro == in[4]
              ret == Seq_read(Self, n, fo, cf, ro)
          IN  /\ Returned("read", 0, ret)
              /\ delivered' = IF ret.ok THEN delivered \o ret.bytes
                              ELSE delivered
              /\ UNCHANGED <<wn, lfile, lpos, consumed, scen>>

SeqWrite ==
    /\ variant = "seq" /\ alive
    /\ \E in \in WriteInputs :
          /\ wn + in[1] <= MaxW
          /\ LET m == in[1]  fo == in[2]  wo == in[3]
                 ret == Seq_write(Self, WriteData(wn, m), fo, wo)
             IN  /\ Returned("write", 0, ret)
                 /\ wn' = wn + ret.n
                 /\ UNCHANGED <<delivered, lfile, lpos, consumed, scen>>

SeqFlush ==
    /\ variant = "seq" /\ alive
    /\ \E fo \in FlushOutcomes, cf \in ChanFlushOutcomes :
          /\ ~Flushed(fo) => ~cf
          /\ Returned("flush", 0, Seq_flush(Self, fo, cf))
          /\ UNCHANGED <<delivered, wn, lfile, lpos, consumed, scen>>

SeqConsume ==
    /\ variant = "seq" /\ alive
    /\ \E amt \in 0..MaxLen :
          /\ Returned("consume", amt, Ret(Seq_consume(Self, amt), TRUE, <<>>, 0))
          /\ consumed' = TRUE
          /\ UNCHANGED <<delivered, wn, lfile, lpos, scen>>

RandRead ==
    /\ variant = "rand" /\ alive
    /\ \E in \in ReadInputs :
          LET n == in[1]  fo == in[2]  cf == in[3]  ro == in[4]
              ret == Rand_read(Self, n, fo, cf, ro)
          IN  /\ Returned("read", 0, ret)
              /\ delivered' = IF ret.ok THEN ret.bytes ELSE <<>>
              /\ lpos' = IF ret.ok THEN lpos + ret.n ELSE lpos
              /\ scen' = ScenRead(n, ret)
              /\ InScen(scen')
              /\ UNCHANGED <<wn, lfile, consumed>>

RandWrite ==
    /\ variant = "rand" /\ alive
    /\ \E in \in WriteInputs,
          se \in IF inner.kind = "Reader" THEN BOOLEAN ELSE {FALSE} :
          /\ wn + in[1] <= MaxW
          /\ se => in[1] = 0 /\ in[3] = 0
          /\ LET m == in[1]  fo == in[2]  wo == in[3]
                 ret == Rand_write(Self, WriteData(wn, m), fo, wo, se)
             IN  /\ Returned("write", 0, ret)
                 /\ wn' = wn + ret.n
                 /\ lfile' = IF ret.ok THEN Overwrite(lfile, lpos, ret.bytes)
                             ELSE lfile
                 /\ lpos' = IF ret.ok THEN lpos + ret.n ELSE lpos
                 /\ delivered' = <<>>
                 /\ scen' = ScenWrite(m, ret)
                 /\ InScen(scen')
                 /\ UNCHANGED consumed

RandFlush ==
    /\ variant = "rand" /\ alive
    /\ \E fo \in FlushOutcomes, cf \in ChanFlushOutcomes :
          /\ ~Flushed(fo) => ~cf
          /\ Returned("flush", 0, Rand_flush(Self, fo, cf))
          /\ delivered' = <<>>
          /\ scen' = NoScen
          /\ InScen(scen')
          /\ UNCHANGED <<wn, lfile, lpos, consumed>>

RandSeek ==
    /\ variant = "rand" /\ alive
    /\ \E sp \in SeekInputs, fo \in FlushOutcomes, se \in BOOLEAN :
          LET ret == Rand_seek(Self, sp, fo, se)
          IN  /\ (~Flushed(fo) \/ se) => sp = Start(0)
              /\ ~Flushed(fo) => ~se
              /\ ret.st.rw.cur <= MaxPos
              /\ Returned("seek", 0, ret)
              /\ lpos' = IF ret.ok THEN SeekTarget(lfile, lpos, sp) ELSE lpos
              /\ delivered' = <<>>
              /\ scen' = ScenSeek(sp, ret)
              /\ InScen(scen')
              /\ UNCHANGED <<wn, lfile, consumed>>

IntoInner ==
    /\ alive
    /\ \E fo \in FlushOutcomes :
          LET i == Stream_into_inner(seekable, Self, fo)
          IN  /\ result' = [done |-> TRUE, ok |-> i.ok, w |-> i.w]
              /\ alive' = FALSE
              /\ inner' = NoneIO
              /\ rw' = i.rw
              /\ last' = Call("into_inner", 0, [NoRet EXCEPT !.ok = i.ok])
              /\ errs' = (errs \/ ~i.ok)
              /\ delivered' = IF seekable THEN <<>> ELSE delivered
              /\ scen' = NoScen
              /\ UNCHANGED <<variant, buffer, pos, capacity, wn,
                             lfile, lpos, consumed, installed, cap0, raw>>

\* brw.get_mut().set_len(len) (rand.rs 59-61, lib.rs 164): the caller
\* cuts the file to its first len bytes behind the wrapper, whose buffer
\* and the file cursor stay as they are.  A run cuts the file once.
RandTruncate ==
    /\ variant = "rand" /\ alive /\ ~raw
    /\ \E len \in 0..(Len(rw.data) - 1) :
          LET ch == Chan_set_len(Rand_get_mut(Self), len)
          IN  /\ rw' = ch
              /\ lfile' = View(TRUE, inner, ch)
              /\ last' = Call("get_mut", len, NoRet)
              /\ raw' = TRUE
              /\ scen' = IF inner.kind = "Reader"
                         THEN [phase |-> 1, len |-> len, want |-> ch.data,
                               stale |-> inner.buf # <<>>]
                         ELSE NoScen
              /\ delivered' = <<>>
              /\ UNCHANGED <<variant, alive, inner, buffer, pos, capacity,
                             result, wn, lpos, errs, consumed, installed,
                             cap0>>

Next ==
    \/ SeqRead \/ SeqWrite \/ SeqFlush \/ SeqConsume
    \/ RandRead \/ RandWrite \/ RandFlush \/ RandSeek \/ RandTruncate
    \/ IntoInner

Spec == Init /\ [][Next]_vars

\* ---------------------------------------------------------- observations
\* The position the next read or write of a seekable stream applies to.
LogicalPos(io, ch) ==
    IF io.kind = "Writer" THEN ch.cur + Len(io.buf)
    ELSE ch.cur - Len(io.buf)

\* The unconsumed carry-over bytes and the reader's lookahead: the bytes
\* pulled from the channel and not yet returned to the caller.
Carry == IF buffer = None THEN <<>> ELSE Drop(buffer[1], pos)
Lookahead == IF inner.kind = "Reader" THEN inner.buf ELSE <<>>

IsSuffix(a, b) == Len(a) <= Len(b) /\ a = Drop(b, Len(b) - Len(a))

\* ------------------------------------------------------------------ claims

\* C1: sequential stream, no channel error and no consume call so far:
\* the bytes the reads returned, followed by the unconsumed carry-over
\* bytes, followed by the reader's lookahead, are exactly the bytes the
\* channel has supplied, in order.  So the reads return a prefix of the
\* supplied bytes, and the lookahead captured by a write is returned next,
\* before any newer channel byte, nothing lost and nothing twice.
C1_ReadsArePrefix ==
    (variant = "seq" /\ alive /\ ~errs /\ ~consumed) =>
        delivered \o Carry \o Lookahead = Take(Source, rw.pulled)

\* A read served in part from a carry-over buffer that a write captured.
C1_Witness ==
    /\ variant = "seq" /\ alive /\ ~errs /\ ~consumed
    /\ last.op = "read" /\ buffer # None /\ pos > 0 /\ wn > 0
    /\ delivered # <<>>

\* C2: random-access stream, a write called in read mode that succeeds:
\* with p the position the calls before it define (the offset the reads
\* delivered up to), the writer is built with the channel cursor at p, so
\* the n accepted bytes lie at offsets p .. p+n-1 of the file (in the
\* writer's buffer at cursor p, or written through), whatever the length
\* of the lookahead the reader held.
C2_WriteLandsAtReadPos ==
    [][(variant = "rand" /\ last'.op = "write" /\ last'.switched /\ last'.ok)
       => LET p == lpos
              n == wn' - wn
          IN  /\ inner.kind = "Reader"
              /\ LogicalPos(inner', rw') = p + n
              /\ rw'.cur + Len(inner'.buf) = p + n
              /\ SubSeq(View(TRUE, inner', rw'), p + 1, p + n)
                    = WriteData(wn, n)]_vars

\* A write switched modes while the reader held lookahead, and bytes were
\* accepted.
C2_Witness ==
    /\ variant = "rand" /\ last.op = "write" /\ last.switched /\ last.ok
    /\ last.look > 0 /\ inner.buf # <<>> /\ lpos > 0

\* C3: random-access stream driven by write, read, seek and flush calls
\* (the file not cut behind the wrapper), no channel error so far: every
\* read returns the bytes that the writes and seeks made before it left at
\* the read position (lfile and lpos follow the calls: a write lays its
\* accepted bytes at lpos, a seek sets lpos, a read advances it).
C3_ReadReturnsWhatWasWritten ==
    (variant = "rand" /\ ~errs /\ ~raw /\ last.op = "read") =>
        delivered = SubSeq(lfile, lpos - Len(delivered) + 1, lpos)

\* MaxW bytes were written, and a read from offset 0 returned all of them.
C3_Witness ==
    /\ variant = "rand" /\ ~errs /\ ~raw /\ last.op = "read"
    /\ wn = MaxW /\ lpos = MaxW /\ delivered = WriteData(0, MaxW)

\* C4: both variants: whenever a call has returned (with success or with
\* an error) and the stream has not been consumed by into_inner, inner
\* holds a reader or a writer, never the None that take() leaves.
C4_InnerNeverEmpty ==
    alive => inner.kind \in {"Reader", "Writer"}

\* A read that switched modes and then failed in the channel read.
C4_Witness ==
    /\ alive /\ last.op = "read" /\ last.switched /\ ~last.ok
    /\ inner.kind = "Reader"

\* C5: both variants: a read called in write mode whose flush fails
\* returns the error, leaves the stream in write mode with the writer
\* holding exactly the bytes not yet written (a suffix of its buffer; sink
\* and buffer together unchanged), issues no channel read, and leaves the
\* carry-over buffer and pos as they were.
C5_FailedFlushAbortsSwitch ==
    [][(last'.op = "read" /\ last'.flushFailed)
       => /\ inner.kind = "Writer"
          /\ ~last'.ok
          /\ inner'.kind = "Writer"
          /\ inner'.cap = inner.cap
          /\ IsSuffix(inner'.buf, inner.buf)
          /\ View(seekable, inner', rw') = View(seekable, inner, rw)
          /\ last'.chanReads = 0
          /\ rw'.pulled = rw.pulled
          /\ seekable => LogicalPos(inner', rw') = LogicalPos(inner, rw)
          /\ buffer' = buffer /\ pos' = pos
          /\ delivered' = IF seekable THEN <<>> ELSE delivered]_vars

\* A read in write mode failed in the flush with bytes still unflushed and
\* a carry-over buffer present.
C5_Witness ==
    /\ variant = "seq" /\ last.op = "read" /\ last.flushFailed
    /\ inner.kind = "Writer" /\ inner.buf # <<>> /\ buffer # None

\* C6 (as the spec states it): after a read whose one channel read failed,
\* the carry-over buffer is absent.
C6_Original ==
    (variant = "seq" /\ last.op = "read" /\ ~last.ok /\ ~last.flushFailed
        /\ last.chanReads = 1)
    => buffer = None

\* C6 (amended): a read with a carry-over buffer present whose channel
\* read fails returns the error and leaves buffer and pos as they were:
\* buffer() returns the same bytes, and the next read delivers them.
C6_CarryKeptOnReadError ==
    [][(variant = "seq" /\ last'.op = "read" /\ ~last'.ok
          /\ ~last'.flushFailed /\ last'.chanReads = 1 /\ buffer # None)
       => /\ buffer' = buffer /\ pos' = pos
          /\ Seq_buffer(Self)' = Seq_buffer(Self)
          /\ delivered' = delivered
          /\ rw'.pulled = rw.pulled]_vars

\* A read found fewer carry-over bytes than asked for, and its channel
\* read failed.
C6_Witness ==
    /\ variant = "seq" /\ last.op = "read" /\ ~last.ok /\ ~last.flushFailed
    /\ last.chanReads = 1 /\ buffer # None

\* C7: sequential stream: consume(amt) with r unconsumed carry-over bytes
\* leaves buffer() absent if amt >= r and returning the last r - amt bytes
\* if amt < r; with no carry-over buffer it changes nothing.
C7_Consume ==
    [][(variant = "seq" /\ last'.op = "consume")
       => LET before == Seq_buffer(Self)
              after == Seq_buffer(Self)'
              amt == last'.amt
          IN  /\ UNCHANGED <<inner, rw, capacity, delivered, wn>>
              /\ IF before = None
                 THEN UNCHANGED <<buffer, pos>>
                 ELSE LET r == Len(before[1])
                      IN  /\ r > 0
                          /\ amt >= r => after = None
                          /\ amt < r =>
                                after = Some(SubSeq(before[1], amt + 1, r))]_vars

\* consume took some but not all of the carry-over bytes.
C7_Witness ==
    /\ variant = "seq" /\ last.op = "consume" /\ last.amt > 0
    /\ buffer # None /\ pos = last.amt

\* C8: both variants: into_inner in write mode with unflushed bytes either
\* returns the channel, which then holds every accepted byte, or returns
\* the error with the writer, and channel and writer together still hold
\* every accepted byte.
C8_IntoInner ==
    [][(last'.op = "into_inner" /\ inner.kind = "Writer" /\ inner.buf # <<>>)
       => /\ result'.done
          /\ \/ /\ result'.ok /\ result'.w = NoneIO
                /\ rw'.data = View(seekable, inner, rw)
             \/ /\ ~result'.ok /\ result'.w.kind = "Writer"
                /\ result'.w.buf # <<>>
                /\ View(seekable, result'.w, rw') = View(seekable, inner, rw)
          /\ View(seekable, result'.w, rw')
                = IF seekable THEN lfile ELSE WriteData(0, wn)]_vars

\* into_inner failed in the flush and returned the writer with bytes in it.
C8_Witness ==
    /\ result.done /\ ~result.ok /\ result.w.kind = "Writer"
    /\ result.w.buf # <<>> /\ last.op = "into_inner"

\* C9: sequential stream: capacity() is what it was right after
\* construction, and c for a stream built with a capacity c.
C9_CapacityStable ==
    (variant = "seq" /\ alive) =>
        /\ Seq_capacity(Self) = cap0
        /\ capacity # None => Seq_capacity(Self) = capacity[1]

\* A stream built with a capacity that has switched to write mode (the
\* carry-over buffer was captured) and back to read mode.
C9_Witness ==
    /\ variant = "seq" /\ alive /\ capacity # None
    /\ last.op = "read" /\ last.switched /\ buffer # None

\* C10: sequential stream: after a read that did not fail in the flush
\* is_reader() is true, after a write it is false, and is_reader() is
\* always the mode the constructor or the last switch installed.
C10_IsReader ==
    (variant = "seq" /\ alive) =>
        /\ (last.op = "read" /\ ~last.flushFailed) => Seq_is_reader(Self)
        /\ last.op = "write" => ~Seq_is_reader(Self)
        /\ Seq_is_reader(Self) <=> installed = "Reader"

\* A read switched to read mode and then failed in the channel read.
C10_Witness ==
    /\ variant = "seq" /\ alive /\ last.op = "read" /\ last.switched
    /\ ~last.ok /\ ~last.flushFailed /\ Seq_is_reader(Self)

\* C12: sequential stream in read mode whose carry-over buffer holds at
\* least n unconsumed bytes: read of n bytes returns n, the bytes are the
\* next n unconsumed carry-over bytes, the channel is not read, the reader
\* and its lookahead are unchanged; pos advances by n when bytes remain,
\* and the buffer is dropped when none remains.
C12_CarryServesRead ==
    (variant = "seq" /\ alive /\ inner.kind = "Reader" /\ buffer # None) =>
        \A n \in 0..MaxLen, ro \in ReadOutcomes :
            Len(Carry) >= n =>
                LET ret == Seq_read(Self, n, 0, FALSE, ro)
                IN  /\ ret.ok /\ ret.n = n /\ ret.bytes = Take(Carry, n)
                    /\ ret.chanReads = 0 /\ ~ret.switched
                    /\ ret.st.rw = rw /\ ret.st.inner = inner
                    /\ IF Len(Carry) > n
                       THEN /\ ret.st.buffer = buffer
                            /\ ret.st.pos = pos + n
                            /\ Seq_buffer(ret.st) = Some(Drop(Carry, n))
                       ELSE ret.st.buffer = None

\* A read was served from the carry-over buffer and left bytes in it.
C12_Witness ==
    /\ variant = "seq" /\ alive /\ ~consumed
    /\ last.op = "read" /\ last.ok /\ last.chanReads = 0 /\ last.carry > 0
    /\ buffer # None /\ pos > 0 /\ Len(buffer[1]) - pos < last.carry

\* C13: sequential stream in read mode whose carry-over buffer holds d
\* unconsumed bytes, 0 < d < n: a successful read of n bytes reads the
\* channel once, returns the d carry-over bytes followed by the k <= n - d
\* bytes that read returned (the next bytes the channel supplies) and the
\* count d + k, and leaves no carry-over buffer, also when k = 0.
C13_CarryThenOneChannelRead ==
    (variant = "seq" /\ alive /\ inner.kind = "Reader" /\ buffer # None) =>
        \A n \in 0..MaxLen, ro \in ReadOutcomes :
            LET d   == Len(Carry)
                ret == Seq_read(Self, n, 0, FALSE, ro)
                k   == ret.n - d
                new == SubSeq(Source, rw.pulled + 1, ret.st.rw.pulled)
            IN  (d < n /\ ret.ok) =>
                    /\ d > 0 /\ ret.chanReads = 1 /\ ~ret.switched
                    /\ k \in 0..(n - d)
                    /\ ret.bytes = Carry \o Take(Lookahead \o new, k)
                    /\ ret.st.inner.buf = Drop(Lookahead \o new, k)
                    /\ ret.st.buffer = None /\ Seq_buffer(ret.st) = None

\* A read took the carry-over bytes, read the channel once and dropped
\* the buffer.
C13_Witness ==
    /\ variant = "seq" /\ alive /\ ~consumed
    /\ last.op = "read" /\ last.ok /\ last.chanReads = 1 /\ last.carry > 0
    /\ ~last.switched /\ buffer = None /\ Lookahead = <<>>

\* C14 as stated: after a write called in read mode with an empty
\* lookahead the stream has no carry-over buffer.
C14_Original ==
    (variant = "seq" /\ last.op = "write" /\ last.switched /\ last.look = 0)
        => buffer = None

\* C14: sequential stream, write called in read mode: a non-empty
\* lookahead becomes the carry-over buffer, with pos = 0; with an empty
\* lookahead the carry-over buffer and pos are left as they were, so a
\* carry-over buffer that still holds unconsumed bytes is kept.
C14_WriteCapturesLookahead ==
    (variant = "seq" /\ alive /\ inner.kind = "Reader") =>
        \A m \in 0..MaxLen, wo \in WriteOutcomes :
            LET ret == Seq_write(Self, WriteData(wn, m), 0, wo)
            IN  /\ ret.switched /\ ret.st.inner.kind = "Writer"
                /\ IF Lookahead # <<>>
                   THEN /\ ret.st.buffer = Some(Lookahead)
                        /\ ret.st.pos = 0
                   ELSE /\ ret.st.buffer = buffer
                        /\ ret.st.pos = pos
                        /\ Seq_buffer(ret.st) = Seq_buffer(Self)

\* A write switched to write mode with an empty lookahead while part of
\* an earlier carry-over buffer was still unconsumed.
C14_Witness ==
    /\ variant = "seq" /\ alive /\ ~consumed
    /\ last.op = "write" /\ last.switched /\ last.look = 0
    /\ last.carry > 0 /\ buffer # None /\ pos > 0

\* C15: sequential stream: whenever the carry-over buffer is present, pos
\* is smaller than its length, so buffer() never returns a present but
\* empty slice; a buffer whose last byte was taken is dropped.
C15_CarryNeverEmpty ==
    (variant = "seq" /\ alive) =>
        /\ buffer # None => pos < Len(buffer[1])
        /\ Seq_buffer(Self) # Some(<<>>)
        /\ \A n \in 0..MaxLen :
              /\ (buffer # None /\ n >= Len(Carry)) =>
                     Seq_consume(Self, n).buffer = None
              /\ (buffer # None /\ inner.kind = "Reader" /\ n = Len(Carry))
                     => Seq_read(Self, n, 0, FALSE, 0).st.buffer = None

\* consume took exactly the bytes the carry-over buffer held (pos reached
\* its length) and the buffer is gone.
C15_Witness ==
    /\ variant = "seq" /\ alive /\ last.op = "consume"
    /\ last.carry > 0 /\ last.amt = last.carry /\ buffer = None

\* C16: both variants: a read call that reads the channel does so with no
\* written byte left in a buffer: the stream is in read mode, and the
\* channel holds what it held together with the bytes the writer had
\* buffered when the call was made, which is every byte the write calls
\* have accepted (sequential: all of them, in order; seekable: the file
\* the calls define).
C16_FlushedBeforeChannelRead ==
    [][(last'.op = "read" /\ last'.chanReads > 0)
         => /\ inner'.kind = "Reader"
            /\ rw'.data = View(seekable, inner, rw)
            /\ seekable => rw'.data = lfile
            /\ ~seekable => rw'.data = WriteData(0, wn)]_vars

\* A read called in write mode, after bytes were accepted, read the
\* channel.
C16_Witness ==
    /\ last.op = "read" /\ last.switched /\ last.chanReads = 1
    /\ inner.kind = "Reader" /\ wn = MaxW /\ rw.data = WriteData(0, MaxW)

\* C17 as stated: a write, flush or consume call that starts and ends in
\* write mode leaves the carry-over buffer and pos unchanged.
C17_Original ==
    [][(/\ variant = "seq" /\ inner.kind = "Writer" /\ inner'.kind = "Writer"
        /\ last'.op \in {"write", "flush", "consume"})
         => UNCHANGED <<buffer, pos>>]_vars

\* C17: sequential stream: a write, a flush or a read that starts and ends
\* in write mode leaves the carry-over buffer and pos unchanged, and so
\* what buffer() returns; consume(amt) acts on the carry-over buffer in
\* write mode as it does in read mode (pos advances by amt, the buffer is
\* dropped when pos reaches its length) and touches nothing else.
C17_WriteModeKeepsCarry ==
    [][(variant = "seq" /\ inner.kind = "Writer" /\ inner'.kind = "Writer")
         => /\ last'.op \in {"write", "flush", "read"}
                 => /\ UNCHANGED <<buffer, pos>>
                    /\ Seq_buffer(Self)' = Seq_buffer(Self)
            /\ last'.op = "consume"
                 => /\ UNCHANGED <<inner, rw>>
                    /\ buffer # None => pos' = pos + last'.amt
                    /\ Seq_buffer(Self)' =
                           IF last'.amt >= Len(Carry) THEN None
                           ELSE Some(Drop(Carry, last'.amt))]_vars

\* A write made in write mode while a carry-over buffer, partly returned
\* by earlier reads, was waiting.
C17_Witness ==
    /\ variant = "seq" /\ alive /\ ~consumed /\ inner.kind = "Writer"
    /\ last.op = "write" /\ ~last.switched /\ last.ok
    /\ last.carry > 0 /\ buffer # None /\ pos > 0

\* C18: both variants, while the stream exists: the installed wrapper
\* changes kind only in a read called in write mode or a write called in
\* read mode; seek, flush, consume and the channel access through get_mut
\* keep the mode; flush in read mode succeeds and changes nothing (wrapper
\* and lookahead, channel, carry-over buffer and pos).
C18_ModeChangesOnlyOnReadWrite ==
    [][alive' =>
         /\ inner'.kind # inner.kind
              => \/ last'.op = "read" /\ inner.kind = "Writer"
                 \/ last'.op = "write" /\ inner.kind = "Reader"
         /\ last'.op \in {"seek", "flush", "consume", "get_mut"}
              => inner'.kind = inner.kind /\ ~last'.switched
         /\ (last'.op = "flush" /\ inner.kind = "Reader")
              => /\ last'.ok
                 /\ UNCHANGED <<inner, rw, buffer, pos, capacity>>]_vars

\* After bytes were written and the stream was switched back to read
\* mode, a seek succeeded and left it in read mode.
C18_Witness ==
    /\ variant = "rand" /\ alive /\ last.op = "seek" /\ last.ok
    /\ inner.kind = "Reader" /\ installed = "Reader"
    /\ rw.cur > 0 /\ wn > 0

\* C19: sequential stream: in read mode a carry-over buffer and a
\* non-empty lookahead never exist together, so a write called in read
\* mode that captures a lookahead finds no carry-over buffer to overwrite.
C19_CarryExcludesLookahead ==
    (variant = "seq" /\ alive /\ inner.kind = "Reader") =>
        /\ buffer # None => inner.buf = <<>>
        /\ \A m \in 0..MaxLen, wo \in WriteOutcomes :
              LET ret == Seq_write(Self, WriteData(wn, m), 0, wo)
              IN  ret.st.buffer # buffer => buffer = None

\* A read switched back to read mode and returned part of the carry-over
\* buffer: the buffer is present, the new reader has read nothing.
C19_Witness ==
    /\ variant = "seq" /\ alive /\ ~consumed /\ inner.kind = "Reader"
    /\ last.op = "read" /\ last.switched /\ last.ok /\ last.chanReads = 0
    /\ buffer # None /\ pos > 0 /\ inner.buf = <<>>

\* C20: sequential stream, reads, writes and flushes in any order, every
\* call free to fail in the channel: the bytes the successful reads
\* returned are a prefix of the bytes the channel supplies, and together
\* with the unconsumed carry-over bytes and the lookahead they are exactly
\* the bytes the channel has supplied so far, in order: a failed read
\* loses no byte and makes no byte come twice.
C20_NoLossAcrossReadErrors ==
    (variant = "seq" /\ alive /\ ~consumed) =>
        /\ delivered = Take(Source, Len(delivered))
        /\ Len(delivered) + Len(Carry) + Len(Lookahead) = rw.pulled
        /\ Carry \o Lookahead =
               SubSeq(Source, Len(delivered) + 1, rw.pulled)

\* A read failed in the channel read with carry-over bytes waiting, and
\* the read after it returned those bytes.
C20_Witness ==
    /\ variant = "seq" /\ alive /\ ~consumed /\ errs
    /\ last.op = "read" /\ last.ok /\ last.afterErr /\ last.carry > 0
    /\ last.chanReads = 0 /\ buffer = None /\ delivered # <<>>

\* C11: random-access stream in read mode whose file is cut to its first
\* L bytes through get_mut, then seek(End(0)), a write that accepts A,
\* seek(Start(0)) and a read of L + len(A) bytes, all successful: once A
\* is written the file is the first L bytes of the old content followed
\* by A, and the read returns the leading bytes of that, all of them when
\* the channel read went up to the end of the file; no byte of the
\* lookahead the reader held, or of the old content beyond L, is returned.
C11_TruncateThenAppend ==
    (variant = "rand" /\ alive) =>
        /\ scen.phase \in {1, 2} => rw.data = scen.want
        /\ scen.phase > 0 => scen.len <= Len(scen.want)
        /\ scen.phase \in {3, 4} => View(TRUE, inner, rw) = scen.want
        /\ scen.phase = 5 =>
              /\ last.op = "read" /\ last.ok /\ inner.kind = "Reader"
              /\ rw.data = scen.want
              /\ delivered = Take(scen.want, Len(delivered))
              /\ rw.cur = Len(rw.data) => delivered = scen.want

\* Bytes were written and read back, the file was cut to one byte while
\* the reader held a lookahead, and the read at the end returned that
\* byte followed by the byte written after the cut.
C11_Witness ==
    /\ variant = "rand" /\ alive /\ scen.phase = 5 /\ scen.stale
    /\ scen.len = 1 /\ Len(delivered) = 2
    /\ delivered = WriteData(0, Len(delivered)) /\ delivered = scen.want

====
